---- MODULE Spec2Model ----
(***************************************************************************)
(* TrainPipeline of src/code/train.py: the experience buffer, the          *)
(* adaptive-learning-rate policy update, the evaluation matches and the    *)
(* coach curriculum / self-play controller of run().                       *)
(*                                                                         *)
(* Representation                                                          *)
(*   - lr_multiplier is the exact rational <<num, den>> in lowest terms.   *)
(*   - kl and kl_targ are in thousandths (kl_targ = 0.02 is 20).           *)
(*   - best_win_ratio and win_ratio are in half-games: (win + 0.5*tie) /   *)
(*     games is kept as 2*win + tie, and 1.0 is 2 * eval_games.            *)
(*   - params is the generation of the estimator's parameters: the number  *)
(*     of policy_update calls that have trained it (every call applies at  *)
(*     least one gradient step; epoch counts the steps within the call).   *)
(*     A checkpoint file is <<g>> when generation g was saved into it and  *)
(*     <<>> while it does not exist.                                       *)
(*   - a player is named by its n_playout; NoPlayer stands for None.       *)
(*   - a training example is <<phase, game, ply>>; its content is opaque.  *)
(***************************************************************************)
EXTENDS Integers, Sequences, FiniteSets, TLC

VARIABLES
    pc,                    \* position of the controller
    error,                 \* the exception that ended run(), "none" otherwise
    time,                  \* run(): coach-loop counter
    i,                     \* run(): self-play loop counter
    level,                 \* run(): index into levels (0-based, as in the code)
    Coach,                 \* run(): n_playout of the current coach
    check_freq,            \* self.check_freq
    least_lose,            \* self.least_lose
    best_win_ratio,        \* self.best_win_ratio (half-games)
    pure_mcts_playout_num, \* self.pure_mcts_playout_num
    mcts_player,           \* is_selfplay flag of self.mcts_player
    data_buffer,           \* self.data_buffer
    play_data,             \* examples of the last game collected
    lr_multiplier,         \* self.lr_multiplier
    kl,                    \* policy_update: last divergence measured
    epoch,                 \* policy_update: gradient steps applied in this call
    params,                \* generation of the estimator's parameters
    current_model,         \* ./current_policy.model
    best_model,            \* ./best_policy.model
    win_cnt,               \* tally of the evaluation in progress / just made
    n_games,               \* policy_evaluate: matches requested
    game_i,                \* policy_evaluate: loop index
    starts,                \* policy_evaluate: start_player of each match played
    Enemy,                 \* policy_evaluate: opponent passed by the caller
    last_eval              \* history: number of the iteration that evaluated last, 0 if none

ctl     == <<pc, error>>
curric  == <<time, level, Coach, check_freq, least_lose>>
selfp   == <<i, best_win_ratio, pure_mcts_playout_num>>
buf     == <<data_buffer, play_data>>
upd     == <<lr_multiplier, kl, epoch>>
models  == <<params, current_model, best_model>>
evl     == <<win_cnt, n_games, game_i, starts, Enemy>>
vars    == <<pc, error, time, i, level, Coach, check_freq, least_lose,
             best_win_ratio, pure_mcts_playout_num, mcts_player, data_buffer,
             play_data, lr_multiplier, kl, epoch, params, current_model,
             best_model, win_cnt, n_games, game_i, starts, Enemy, last_eval>>

----------------------------------------------------------------------------
(* Sizes of the explored instance.  The code has buffer_size = 10000,      *)
(* batch_size = 16, check_freq = 100 (+10 / +20), game_batch_num = 100000, *)
(* a self-play check_freq of 3000, a self-play buffer guard of 5, and 10   *)
(* evaluation matches with least_lose starting at 10 and the win ratio     *)
(* divided by 10; the model keeps their order relations and scales the     *)
(* values down.                                                            *)
MaxTime == 7
MaxEpisodeLen == 2
MaxUpdates == 7
MaxEvalGames == 5
buffer_size == 4
batch_size == 2
self_min_buffer == 1
check_freq_init == 2
check_step_small == 1
check_step_big == 2
self_check_freq == 2
game_batch_num == 4
eval_games == 2
least_lose_init == 2

(* Program constants. *)
epochs == 5
kl_targ == 20
coach_init_playout == 50
pure_mcts_init == 1000
pure_mcts_max == 5000
pure_mcts_step == 1000
levels == <<100, 300, 500>>

NoPlayer == 0
NoModel == <<>>
Winners == {1, 2, -1}
KLValues == {0, 5, 10, 15, 20, 40, 45, 60, 80, 85, 100}

----------------------------------------------------------------------------
(* Rational arithmetic for lr_multiplier. *)
RECURSIVE GCD(_, _)
GCD(a, b) == IF b = 0 THEN a ELSE GCD(b, a % b)

Norm(r) == LET g == GCD(r[1], r[2]) IN <<r[1] \div g, r[2] \div g>>

RatLt(r, s) == r[1] * s[2] < s[1] * r[2]

lr_init == <<1, 1>>
lr_floor == <<1, 10>>
lr_ceil == <<10, 1>>

DivBy2(r) == Norm(<<r[1], r[2] * 2>>)
MulBy2(r) == Norm(<<r[1] * 2, r[2]>>)

DivBy15(r) == Norm(<<r[1] * 2, r[2] * 3>>)
MulBy15(r) == Norm(<<r[1] * 3, r[2] * 2>>)

----------------------------------------------------------------------------
(* deque(maxlen = buffer_size): append at the right, and once the deque is *)
(* longer than maxlen the leftmost element is discarded.                   *)
DequeAppendDropNewest(d, x) ==
    IF Len(d) >= buffer_size THEN d ELSE Append(d, x)

DequeAppend(d, x) ==
    LET a == Append(d, x)
    IN  IF Len(a) > buffer_size THEN Tail(a) ELSE a

RECURSIVE DequeExtend(_, _)
DequeExtend(d, xs) ==
    IF xs = <<>> THEN d
    ELSE DequeExtend(DequeAppend(d, Head(xs)), Tail(xs))

(* The examples one game returns: at least one position, at most           *)
(* MaxEpisodeLen, each tagged with its phase, game number and ply.         *)
Episode(phase, g, n) == [p \in 1..n |-> <<phase, g, p>>]
EpisodeLens == 1..MaxEpisodeLen

(* A buffer of n examples left by n one-example coach games. *)
Filled(n) == [p \in 1..n |-> <<"coach", p - 1, 1>>]

----------------------------------------------------------------------------
(* policy_update, lines 83-107. *)
EarlyStopAtTwice(k) == k > kl_targ * 2

EarlyStop(k) == k > kl_targ * 4

AdaptLRUnguarded(m, k) ==
    IF k > kl_targ * 2 THEN DivBy15(m)
    ELSE IF k * 2 < kl_targ THEN MulBy15(m)
    ELSE m

AdaptLRSkipOnStop(m, k) ==
    IF EarlyStop(k) THEN m
    ELSE IF k > kl_targ * 2 /\ RatLt(lr_floor, m) THEN DivBy15(m)
    ELSE IF k * 2 < kl_targ /\ RatLt(m, lr_ceil) THEN MulBy15(m)
    ELSE m

AdaptLR(m, k) ==
    IF k > kl_targ * 2 /\ RatLt(lr_floor, m) THEN DivBy15(m)
    ELSE IF k * 2 < kl_targ /\ RatLt(m, lr_ceil) THEN MulBy15(m)
    ELSE m

(* The ways the epoch loop can end when its body is entered with index e:  *)
(* <<gradient steps applied, last divergence measured>>.                   *)
RECURSIVE EpochLoop(_)
EpochLoop(e) ==
    LET ends == {<<e + 1, k>> : k \in {x \in KLValues : EarlyStop(x) \/ e + 1 = epochs}}
        more == IF e + 1 < epochs /\ (\E x \in KLValues : ~EarlyStop(x))
                THEN EpochLoop(e + 1) ELSE {}
    IN  ends \cup more

----------------------------------------------------------------------------
(* policy_evaluate, lines 129-148. *)
EmptyTally == [w \in Winners |-> 0]
StartPlayerFixed(g) == 0

StartPlayer(g) == g % 2
Bump(t, w) == [t EXCEPT ![w] = @ + 1]

(* The tallies the match loop can return for n matches. *)
RECURSIVE MatchLoop(_, _, _)
MatchLoop(g, n, ts) ==
    IF g >= n THEN ts
    ELSE MatchLoop(g + 1, n, {Bump(t, w) : t \in ts, w \in Winners})

Tallies(n) == MatchLoop(0, n, {EmptyTally})

----------------------------------------------------------------------------
(* levels[idx] with Python's 0-based index; IndexError outside the list. *)
InRange(idx) == idx >= 0 /\ idx < Len(levels)
LevelAt(idx) == levels[idx + 1]

Init ==
    /\ pc = "run"
    /\ error = "none"
    /\ time = 0
    /\ i = 0
    /\ level = 0
    /\ Coach = NoPlayer
    /\ check_freq = check_freq_init
    /\ least_lose = least_lose_init
    /\ best_win_ratio = 0
    /\ pure_mcts_playout_num = pure_mcts_init
    /\ mcts_player = 1
    /\ data_buffer = <<>>
    /\ play_data = <<>>
    /\ lr_multiplier = lr_init
    /\ kl = 0
    /\ epoch = 0
    /\ params = 0
    /\ current_model = NoModel
    /\ best_model = NoModel
    /\ win_cnt = EmptyTally
    /\ n_games = 0
    /\ game_i = 0
    /\ starts = <<>>
    /\ Enemy = NoPlayer
    /\ last_eval = 0

----------------------------------------------------------------------------
(* run(), coach phase: lines 153-189. *)

RunSetup ==
    /\ pc = "run"
    /\ time' = 0
    /\ Coach' = coach_init_playout
    /\ mcts_player' = 0
    /\ level' = 0
    /\ pc' = "coach_collect"
    /\ UNCHANGED <<error, check_freq, least_lose, selfp, buf, upd, models, evl>>
    /\ UNCHANGED last_eval

CollectCoachplayData ==
    /\ pc = "coach_collect"
    /\ time < MaxTime
    /\ \E n \in EpisodeLens :
          /\ play_data' = Episode("coach", time, n)
          /\ data_buffer' = DequeExtend(data_buffer, play_data')
    /\ pc' = "coach_update"
    /\ UNCHANGED <<error, curric, selfp, mcts_player, upd, models, evl>>
    /\ UNCHANGED last_eval

(* The whole call of policy_update: the sample, the epoch loop, the        *)
(* learning-rate adaptation.                                               *)
PolicyUpdate ==
    \E o \in EpochLoop(0) :
        /\ params' = params + 1
        /\ lr_multiplier' = AdaptLR(lr_multiplier, o[2])
        /\ UNCHANGED <<kl, epoch>>

(* random.sample(self.data_buffer, self.batch_size) raises ValueError when  *)
(* the buffer holds fewer than batch_size examples.                        *)
CanSample == Len(data_buffer) >= batch_size

CoachGuardAny == Len(data_buffer) > 0

CoachGuard == Len(data_buffer) > batch_size

CoachUpdate ==
    /\ pc = "coach_update"
    /\ CoachGuard
    /\ IF CanSample
       THEN /\ PolicyUpdate
            /\ pc' = "coach_check"
            /\ error' = error
       ELSE /\ pc' = "aborted"
            /\ error' = "ValueError"
            /\ UNCHANGED <<upd, params>>
    /\ UNCHANGED <<curric, selfp, mcts_player, buf, current_model, best_model, evl>>
    /\ UNCHANGED last_eval

CoachSkipUpdate ==
    /\ pc = "coach_update"
    /\ ~CoachGuard
    /\ pc' = "coach_check"
    /\ UNCHANGED <<error, curric, selfp, mcts_player, buf, upd, models, evl>>
    /\ UNCHANGED last_eval

CheckDue(t) == (t + 1) % check_freq = 0

(* The whole call of policy_evaluate(n, enemy). *)
PolicyEvaluate(n, enemy) ==
    /\ Enemy' = enemy
    /\ win_cnt' \in Tallies(n)
    /\ UNCHANGED <<n_games, game_i, starts>>

CoachEvaluateRecording ==
    /\ pc = "coach_check"
    /\ CheckDue(time)
    /\ PolicyEvaluate(eval_games, Coach)
    /\ pc' = "coach_save"
    /\ play_data' = Episode("coach", time, MaxEpisodeLen)
    /\ data_buffer' = DequeExtend(data_buffer, play_data')
    /\ UNCHANGED <<error, curric, selfp, mcts_player, upd, models>>
    /\ last_eval' = time + 1

CoachEvaluate ==
    /\ pc = "coach_check"
    /\ CheckDue(time)
    /\ PolicyEvaluate(eval_games, Coach)
    /\ pc' = "coach_save"
    /\ UNCHANGED <<error, curric, selfp, mcts_player, buf, upd, models>>
    /\ last_eval' = time + 1

CoachNoCheck ==
    /\ pc = "coach_check"
    /\ ~CheckDue(time)
    /\ time' = time + 1
    /\ pc' = "coach_collect"
    /\ UNCHANGED <<error, level, Coach, check_freq, least_lose, selfp, mcts_player,
                   buf, upd, models, evl>>
    /\ UNCHANGED last_eval

CoachSaveCurrentSkipped ==
    /\ pc = "coach_save"
    /\ pc' = "coach_promote"
    /\ UNCHANGED <<error, curric, selfp, mcts_player, buf, upd, models, evl>>
    /\ UNCHANGED last_eval

CoachSaveCurrent ==
    /\ pc = "coach_save"
    /\ current_model' = <<params>>
    /\ pc' = "coach_promote"
    /\ UNCHANGED <<error, curric, selfp, mcts_player, buf, upd, params, best_model, evl>>
    /\ UNCHANGED last_eval

(* Lines 171-189.  The tally is not read after this block. *)
CoachImprovedOrTie == win_cnt[2] <= least_lose

CoachImproved == win_cnt[2] < least_lose

CoachPromoteNoReset ==
    /\ pc = "coach_promote"
    /\ win_cnt' = EmptyTally
    /\ IF CoachImproved
       THEN /\ best_model' = <<params>>
            /\ least_lose' = win_cnt[2]
            /\ IF win_cnt[2] = 0
               THEN IF level < Len(levels)
                    THEN /\ level' = level + 1
                         /\ IF InRange(level + 1)
                            THEN /\ Coach' = LevelAt(level + 1)
                                 /\ time' = time + 1
                                 /\ pc' = "coach_collect"
                                 /\ error' = error
                            ELSE /\ pc' = "aborted"
                                 /\ error' = "IndexError"
                                 /\ UNCHANGED <<Coach, time>>
                         /\ UNCHANGED check_freq
                    ELSE /\ pc' = "self_enter"
                         /\ UNCHANGED <<error, time, level, Coach, check_freq>>
               ELSE /\ check_freq' = check_freq + check_step_small
                    /\ time' = time + 1
                    /\ pc' = "coach_collect"
                    /\ UNCHANGED <<error, level, Coach>>
       ELSE /\ check_freq' = check_freq + check_step_big
            /\ time' = time + 1
            /\ pc' = "coach_collect"
            /\ UNCHANGED <<error, level, Coach, least_lose, best_model>>
    /\ UNCHANGED <<selfp, mcts_player, buf, upd, params, current_model,
                   n_games, game_i, starts, Enemy>>
    /\ UNCHANGED last_eval

CoachPromote ==
    /\ pc = "coach_promote"
    /\ win_cnt' = EmptyTally
    /\ IF CoachImproved
       THEN /\ best_model' = <<params>>
            /\ IF win_cnt[2] = 0
               THEN IF level < Len(levels)
                    THEN /\ least_lose' = least_lose_init
                         /\ level' = level + 1
                         /\ IF InRange(level + 1)
                            THEN /\ Coach' = LevelAt(level + 1)
                                 /\ time' = time + 1
                                 /\ pc' = "coach_collect"
                                 /\ error' = error
                            ELSE /\ pc' = "aborted"
                                 /\ error' = "IndexError"
                                 /\ UNCHANGED <<Coach, time>>
                         /\ UNCHANGED check_freq
                    ELSE /\ least_lose' = win_cnt[2]
                         /\ pc' = "self_enter"
                         /\ UNCHANGED <<error, time, level, Coach, check_freq>>
               ELSE /\ least_lose' = win_cnt[2]
                    /\ check_freq' = check_freq + check_step_small
                    /\ time' = time + 1
                    /\ pc' = "coach_collect"
                    /\ UNCHANGED <<error, level, Coach>>
       ELSE /\ check_freq' = check_freq + check_step_big
            /\ time' = time + 1
            /\ pc' = "coach_collect"
            /\ UNCHANGED <<error, level, Coach, least_lose, best_model>>
    /\ UNCHANGED <<selfp, mcts_player, buf, upd, params, current_model,
                   n_games, game_i, starts, Enemy>>
    /\ UNCHANGED last_eval

----------------------------------------------------------------------------
(* run(), self-play phase: lines 191-218. *)

SelfEnterKeepFreq ==
    /\ pc = "self_enter"
    /\ mcts_player' = 1
    /\ i' = 0
    /\ pc' = "self_collect"
    /\ UNCHANGED <<error, curric, best_win_ratio, pure_mcts_playout_num, buf, upd,
                   models, evl>>
    /\ UNCHANGED last_eval

SelfEnter ==
    /\ pc = "self_enter"
    /\ mcts_player' = 1
    /\ check_freq' = self_check_freq
    /\ i' = 0
    /\ pc' = "self_collect"
    /\ UNCHANGED <<error, time, level, Coach, least_lose, best_win_ratio,
                   pure_mcts_playout_num, buf, upd, models, evl>>
    /\ UNCHANGED last_eval

CollectSelfplayData ==
    /\ pc = "self_collect"
    /\ i < game_batch_num
    /\ \E n \in EpisodeLens :
          /\ play_data' = Episode("self", i, n)
          /\ data_buffer' = DequeExtend(data_buffer, play_data')
    /\ pc' = "self_update"
    /\ UNCHANGED <<error, curric, selfp, mcts_player, upd, models, evl>>
    /\ UNCHANGED last_eval

(* range(self.game_batch_num) is exhausted: run() returns. *)
SelfFinish ==
    /\ pc = "self_collect"
    /\ i >= game_batch_num
    /\ pc' = "done"
    /\ UNCHANGED <<error, curric, selfp, mcts_player, buf, upd, models, evl>>
    /\ UNCHANGED last_eval

SelfGuard == Len(data_buffer) > self_min_buffer

(* Lines 201-202. *)
SelfUpdate ==
    /\ pc = "self_update"
    /\ IF ~SelfGuard
       THEN /\ pc' = "self_check"
            /\ UNCHANGED <<error, upd, params>>
       ELSE IF CanSample
            THEN /\ PolicyUpdate
                 /\ pc' = "self_check"
                 /\ error' = error
            ELSE /\ pc' = "aborted"
                 /\ error' = "ValueError"
                 /\ UNCHANGED <<upd, params>>
    /\ UNCHANGED <<curric, selfp, mcts_player, buf, current_model, best_model, evl>>
    /\ UNCHANGED last_eval

(* Line 207: policy_evaluate() with its defaults, n_games = 10 and         *)
(* Enemy = None.                                                           *)
SelfEvaluate ==
    /\ pc = "self_check"
    /\ CheckDue(i)
    /\ PolicyEvaluate(eval_games, NoPlayer)
    /\ pc' = "self_save"
    /\ UNCHANGED <<error, curric, selfp, mcts_player, buf, upd, models>>
    /\ last_eval' = i + 1

SelfNoCheck ==
    /\ pc = "self_check"
    /\ ~CheckDue(i)
    /\ i' = i + 1
    /\ pc' = "self_collect"
    /\ UNCHANGED <<error, curric, best_win_ratio, pure_mcts_playout_num, mcts_player,
                   buf, upd, models, evl>>
    /\ UNCHANGED last_eval

(* Line 208, in half-games. *)
WinRatio(t) == 2 * t[1] + t[-1]
PerfectRatio == 2 * eval_games

SelfSaveCurrent ==
    /\ pc = "self_save"
    /\ current_model' = <<params>>
    /\ pc' = "self_promote"
    /\ UNCHANGED <<error, curric, selfp, mcts_player, buf, upd, params, best_model, evl>>
    /\ UNCHANGED last_eval

(* Lines 210-218.  The tally is not read after this block. *)
SelfImprovedOrTie == WinRatio(win_cnt) >= best_win_ratio

SelfImproved == WinRatio(win_cnt) > best_win_ratio

SelfPromote ==
    /\ pc = "self_promote"
    /\ win_cnt' = EmptyTally
    /\ IF SelfImproved
       THEN /\ best_model' = <<params>>
            /\ IF WinRatio(win_cnt) = PerfectRatio /\ pure_mcts_playout_num < pure_mcts_max
               THEN /\ pure_mcts_playout_num' = pure_mcts_playout_num + pure_mcts_step
                    /\ best_win_ratio' = 0
               ELSE /\ best_win_ratio' = WinRatio(win_cnt)
                    /\ UNCHANGED pure_mcts_playout_num
       ELSE UNCHANGED <<best_model, best_win_ratio, pure_mcts_playout_num>>
    /\ i' = i + 1
    /\ pc' = "self_collect"
    /\ UNCHANGED <<error, curric, mcts_player, buf, upd, params, current_model,
                   n_games, game_i, starts, Enemy>>
    /\ UNCHANGED last_eval

----------------------------------------------------------------------------
(* The try block of run(): only KeyboardInterrupt is caught. *)
InTry == pc \notin {"quit", "aborted", "done"}

KeyboardInterruptSaving ==
    /\ InTry
    /\ pc' = "quit"
    /\ current_model' = <<params>>
    /\ UNCHANGED <<error, curric, selfp, mcts_player, buf, upd, params, best_model, evl>>
    /\ UNCHANGED last_eval

KeyboardInterrupt ==
    /\ InTry
    /\ pc' = "quit"
    /\ UNCHANGED <<error, curric, selfp, mcts_player, buf, upd, models, evl>>
    /\ UNCHANGED last_eval

(* Any other exception of a collaborator (game engine, estimator,          *)
(* checkpoint storage) leaves run() uncaught.                              *)
OtherError ==
    /\ InTry
    /\ pc' = "aborted"
    /\ error' = "Exception"
    /\ UNCHANGED <<curric, selfp, mcts_player, buf, upd, models, evl>>
    /\ UNCHANGED last_eval

Next ==
    \/ RunSetup
    \/ CollectCoachplayData
    \/ CoachUpdate
    \/ CoachSkipUpdate
    \/ CoachEvaluate
    \/ CoachNoCheck
    \/ CoachSaveCurrent
    \/ CoachPromote
    \/ KeyboardInterrupt
    \/ OtherError

Spec == Init /\ [][Next]_vars

(* The self-play loop as line 184's break enters it: every level cleared   *)
(* (at least one evaluation per configured level, check_freq games before  *)
(* each), the buffer past batch_size, both checkpoints written.            *)
InitSelfPlay ==
    /\ pc = "self_enter"
    /\ error = "none"
    /\ time \in {Len(levels) * check_freq_init - 1, MaxTime}
    /\ i = 0
    /\ level = Len(levels)
    /\ Coach = LevelAt(Len(levels) - 1)
    /\ check_freq \in {check_freq_init, check_freq_init + check_step_small}
    /\ least_lose = 0
    /\ best_win_ratio = 0
    /\ pure_mcts_playout_num = pure_mcts_init
    /\ mcts_player = 0
    /\ \E n \in (batch_size + 1)..buffer_size : data_buffer = Filled(n)
    /\ play_data = <<>>
    /\ lr_multiplier \in {lr_init, DivBy15(lr_init), MulBy15(lr_init)}
    /\ kl = 0
    /\ epoch = 0
    /\ params = 1
    /\ current_model = <<params>>
    /\ best_model = <<params>>
    /\ win_cnt = EmptyTally
    /\ n_games = 0
    /\ game_i = 0
    /\ starts = <<>>
    /\ Enemy = Coach
    /\ last_eval = time + 1

NextSelfPlay ==
    \/ SelfEnter
    \/ CollectSelfplayData
    \/ SelfFinish
    \/ SelfUpdate
    \/ SelfEvaluate
    \/ SelfNoCheck
    \/ SelfSaveCurrent
    \/ SelfPromote
    \/ KeyboardInterrupt
    \/ OtherError

SpecSelfPlay == InitSelfPlay /\ [][NextSelfPlay]_vars

(* Both loops of run(). *)
SpecPhases == (Init \/ InitSelfPlay) /\ [][Next \/ NextSelfPlay]_vars

----------------------------------------------------------------------------
(* policy_update step by step (lines 83-107), called again and again with  *)
(* a buffer that passed the caller's guard.                                *)

InitUpdate ==
    /\ pc = "upd_call"
    /\ error = "none"
    /\ time = 0
    /\ i = 0
    /\ level = 0
    /\ Coach = coach_init_playout
    /\ check_freq = check_freq_init
    /\ least_lose = least_lose_init
    /\ best_win_ratio = 0
    /\ pure_mcts_playout_num = pure_mcts_init
    /\ mcts_player = 0
    /\ \E n \in (batch_size + 1)..buffer_size : data_buffer = Filled(n)
    /\ play_data = <<>>
    /\ lr_multiplier = lr_init
    /\ kl = 0
    /\ epoch = 0
    /\ params = 0
    /\ current_model = NoModel
    /\ best_model = NoModel
    /\ win_cnt = EmptyTally
    /\ n_games = 0
    /\ game_i = 0
    /\ starts = <<>>
    /\ Enemy = NoPlayer
    /\ last_eval = 0

(* Lines 85-89: random.sample raises ValueError when the buffer holds      *)
(* fewer than batch_size examples.                                         *)
UpdSample ==
    /\ pc = "upd_call"
    /\ params < MaxUpdates
    /\ IF Len(data_buffer) < batch_size
       THEN /\ pc' = "aborted"
            /\ error' = "ValueError"
            /\ UNCHANGED epoch
       ELSE /\ pc' = "upd_train"
            /\ epoch' = 0
            /\ error' = error
    /\ UNCHANGED <<curric, selfp, mcts_player, buf, lr_multiplier, kl, models, evl>>
    /\ UNCHANGED last_eval

(* Lines 90-102: one train_step, the divergence it leaves, the break. *)
UpdTrainStep ==
    /\ pc = "upd_train"
    /\ epoch < epochs
    /\ \E k \in KLValues :
          /\ kl' = k
          /\ pc' = IF EarlyStop(k) \/ epoch + 1 >= epochs THEN "upd_adapt" ELSE "upd_train"
    /\ epoch' = epoch + 1
    /\ params' = IF epoch = 0 THEN params + 1 ELSE params
    /\ UNCHANGED <<error, curric, selfp, mcts_player, buf, lr_multiplier,
                   current_model, best_model, evl>>
    /\ UNCHANGED last_eval

(* Lines 104-107. *)
UpdAdapt ==
    /\ pc = "upd_adapt"
    /\ lr_multiplier' = AdaptLR(lr_multiplier, kl)
    /\ pc' = "upd_ret"
    /\ UNCHANGED <<error, curric, selfp, mcts_player, buf, kl, epoch, models, evl>>
    /\ UNCHANGED last_eval

(* Line 127; the caller's next iteration calls again. *)
UpdReturn ==
    /\ pc = "upd_ret"
    /\ pc' = "upd_call"
    /\ UNCHANGED <<error, curric, selfp, mcts_player, buf, upd, models, evl>>
    /\ UNCHANGED last_eval

NextUpdate ==
    \/ UpdSample
    \/ UpdTrainStep
    \/ UpdAdapt
    \/ UpdReturn

SpecUpdate == InitUpdate /\ [][NextUpdate]_vars

----------------------------------------------------------------------------
(* policy_evaluate step by step (lines 129-148). *)

InitEval ==
    /\ pc = "eval_call"
    /\ error = "none"
    /\ time = 0
    /\ i = 0
    /\ level = 0
    /\ Coach = coach_init_playout
    /\ check_freq = check_freq_init
    /\ least_lose = least_lose_init
    /\ best_win_ratio = 0
    /\ pure_mcts_playout_num = pure_mcts_init
    /\ mcts_player = 0
    /\ data_buffer = <<>>
    /\ play_data = <<>>
    /\ lr_multiplier = lr_init
    /\ kl = 0
    /\ epoch = 0
    /\ params = 0
    /\ current_model = NoModel
    /\ best_model = NoModel
    /\ win_cnt = EmptyTally
    /\ n_games \in 0..MaxEvalGames
    /\ game_i = 0
    /\ starts = <<>>
    /\ Enemy \in {NoPlayer, coach_init_playout}
    /\ last_eval = 0

(* Lines 134-138. *)
EvalBegin ==
    /\ pc = "eval_call"
    /\ win_cnt' = EmptyTally
    /\ game_i' = 0
    /\ starts' = <<>>
    /\ pc' = "eval_loop"
    /\ UNCHANGED <<error, curric, selfp, mcts_player, buf, upd, models, n_games, Enemy>>
    /\ UNCHANGED last_eval

(* Lines 139-144: one match and its entry in the tally. *)
EvalMatch ==
    /\ pc = "eval_loop"
    /\ game_i < n_games
    /\ \E w \in Winners : win_cnt' = Bump(win_cnt, w)
    /\ starts' = Append(starts, StartPlayer(game_i))
    /\ game_i' = game_i + 1
    /\ UNCHANGED <<ctl, curric, selfp, mcts_player, buf, upd, models, n_games, Enemy>>
    /\ UNCHANGED last_eval

(* Lines 145-148. *)
EvalReturn ==
    /\ pc = "eval_loop"
    /\ game_i >= n_games
    /\ pc' = "eval_ret"
    /\ UNCHANGED <<error, curric, selfp, mcts_player, buf, upd, models, evl>>
    /\ UNCHANGED last_eval

NextEval ==
    \/ EvalBegin
    \/ EvalMatch
    \/ EvalReturn

SpecEval == InitEval /\ [][NextEval]_vars

----------------------------------------------------------------------------
(* Helpers of the properties. *)
Min(a, b) == IF a <= b THEN a ELSE b
LastN(s, n) == SubSeq(s, Len(s) - n + 1, Len(s))
TallySum(t) == t[1] + t[2] + t[-1]
IsPush == pc \in {"coach_collect", "self_collect"} /\ pc' \in {"coach_update", "self_update"}
(* The step from position p is the code at p, not an interrupt or an       *)
(* exception of a collaborator.                                            *)
Ran(p) == pc = p /\ pc' # "quit" /\ error' # "Exception"

(* C1: the buffer never holds more than buffer_size examples, and a push   *)
(* of a game leaves exactly the newest buffer_size examples of (old buffer *)
(* followed by the game), in insertion order; no other step touches it.    *)
C1_BufferFifo ==
    /\ [](Len(data_buffer) <= buffer_size)
    /\ [][IF IsPush
          THEN LET all == data_buffer \o play_data'
               IN  data_buffer' = LastN(all, Min(Len(all), buffer_size))
          ELSE data_buffer' = data_buffer]_vars

(* buffer_size + 1 one-example games were pushed: the first was evicted.   *)
C1_Witness ==
    /\ pc = "coach_update"
    /\ time = buffer_size
    /\ data_buffer = [k \in 1..buffer_size |-> <<"coach", k, 1>>]

(* C2: the multiplier stays within [0.1, 10] (as claimed). *)
C2_MultiplierInBand ==
    /\ ~RatLt(lr_multiplier, lr_floor)
    /\ ~RatLt(lr_ceil, lr_multiplier)

(* C2 (amended): the multiplier stays strictly between 0.1 / 1.5 and        *)
(* 10 * 1.5: the guards compare the value before the adjustment, so it can *)
(* pass 0.1 or 10 by one factor of 1.5 and no further.                     *)
C2_MultiplierNearBand ==
    /\ 3 * lr_multiplier[1] * lr_floor[2] > 2 * lr_floor[1] * lr_multiplier[2]
    /\ 2 * lr_multiplier[1] * lr_ceil[2] < 3 * lr_ceil[1] * lr_multiplier[2]

(* A call has returned with the multiplier below 0.1. *)
C2_Witness ==
    /\ pc = "upd_ret"
    /\ RatLt(lr_multiplier, lr_floor)
    /\ kl > 2 * kl_targ

(* C3: within one call a gradient step follows another only when the       *)
(* divergence measured after the earlier one is at most 4 * kl_targ; the   *)
(* loop ends only by that break or after epochs steps, so a call applies   *)
(* between 1 and epochs steps.                                             *)
C3_EarlyStop ==
    /\ [](pc \in {"upd_adapt", "upd_ret"} =>
            /\ epoch >= 1
            /\ epoch <= epochs
            /\ (epoch = epochs \/ kl > 4 * kl_targ))
    /\ [][epoch' = epoch + 1 => (epoch = 0 \/ kl <= 4 * kl_targ)]_vars

C3_Witness ==
    /\ pc = "upd_adapt"
    /\ epoch = 2
    /\ kl > 4 * kl_targ

(* C8: policy_evaluate returns after exactly n_games matches, match g      *)
(* (0-based) started by player g % 2, with a tally over the winners 1, 2   *)
(* and -1 whose counts sum to n_games.                                     *)
C8_Evaluate ==
    pc = "eval_ret" =>
        /\ game_i = n_games
        /\ Len(starts) = n_games
        /\ \A g \in 1..Len(starts) : starts[g] = IF g % 2 = 1 THEN 0 ELSE 1
        /\ DOMAIN win_cnt = {1, 2, -1}
        /\ TallySum(win_cnt) = n_games

C8_Witness ==
    /\ pc = "eval_ret"
    /\ n_games = 3
    /\ starts = <<0, 1, 0>>
    /\ win_cnt[1] = 1 /\ win_cnt[2] = 1 /\ win_cnt[-1] = 1

(* C10: the multiplier changes only in the step after the epoch loop, and  *)
(* there by the last divergence measured: divided by 1.5 when kl > 2 *     *)
(* kl_targ and the multiplier is above 0.1, else multiplied by 1.5 when    *)
(* kl < kl_targ / 2 and the multiplier is below 10, else unchanged; 1.0    *)
(* shrinks to 2/3 and 2/3 grows back to 1.0.                               *)
C10_Adaptation ==
    [][LET m == lr_multiplier
           n == lr_multiplier'
       IN  IF pc = "upd_adapt" /\ pc' = "upd_ret"
           THEN /\ IF kl > 2 * kl_targ /\ 10 * m[1] > m[2]
                   THEN 3 * n[1] * m[2] = 2 * m[1] * n[2]
                   ELSE IF 2 * kl < kl_targ /\ m[1] < 10 * m[2]
                        THEN 2 * n[1] * m[2] = 3 * m[1] * n[2]
                        ELSE n = m
                /\ (m = <<1, 1>> /\ kl = 3 * kl_targ => n = <<2, 3>>)
                /\ (m = <<2, 3>> /\ 4 * kl = kl_targ => n = <<1, 1>>)
           ELSE n = m]_vars

(* Two calls so far: the first ended at 3 * kl_targ, the second at         *)
(* kl_targ / 4, and the multiplier is back at 1.0.                         *)
C10_Witness ==
    /\ pc = "upd_ret"
    /\ params = 2
    /\ 4 * kl = kl_targ
    /\ lr_multiplier = <<1, 1>>

(* C4: ./best_policy.model is rewritten only in the promotion step of an   *)
(* evaluation whose result strictly improves on the recorded best: fewer   *)
(* losses than least_lose in the coach phase, a higher win ratio than      *)
(* best_win_ratio in the self-play phase; a tie or a regression leaves it  *)
(* as it was.                                                              *)
C4_PromotionStrict ==
    [][best_model' # best_model =>
          \/ pc = "coach_promote" /\ win_cnt[2] < least_lose
          \/ pc = "self_promote" /\ 2 * win_cnt[1] + win_cnt[-1] > best_win_ratio]_vars

(* After an evaluation that improved to one loss, a later evaluation with  *)
(* one loss or more saved newer parameters as current and left best alone. *)
C4_Witness ==
    /\ pc = "coach_collect"
    /\ level = 0
    /\ least_lose = 1
    /\ best_model # NoModel
    /\ best_model # current_model

(* C5: an evaluation with zero losses while level < len(levels) installs a *)
(* strictly stronger coach and resets least_lose to its initial value (as  *)
(* claimed).                                                               *)
C5_NextCoachStronger ==
    [][(Ran("coach_promote") /\ win_cnt[2] = 0 /\ win_cnt[2] < least_lose
            /\ level < Len(levels)) =>
          (Coach' > Coach /\ least_lose' = least_lose_init)]_vars

(* C6: an evaluation with zero losses against the coach of the last        *)
(* configured level ends the coach phase and enters the self-play phase    *)
(* (as claimed).                                                           *)
C6_EntersSelfPlay ==
    [][(Ran("coach_promote") /\ win_cnt[2] = 0 /\ win_cnt[2] < least_lose
            /\ Coach = levels[Len(levels)]) =>
          pc' = "self_enter"]_vars

C9_Interrupt ==
    /\ [][pc' = "quit" =>
            UNCHANGED <<data_buffer, lr_multiplier, time, i, level, Coach, check_freq,
                        least_lose, best_win_ratio, pure_mcts_playout_num, params,
                        current_model, best_model, error>>]_vars
    /\ [][pc = "quit" => pc' = "quit"]_vars
    /\ [][error' # error => pc' = "aborted"]_vars
    /\ [][pc = "aborted" => pc' = "aborted"]_vars
    /\ [](pc = "quit" => error = "none")

(* Interrupted in the coach phase after a promotion, with newer parameters *)
(* than the ones saved.                                                    *)
C9_Witness ==
    /\ pc = "quit"
    /\ best_model # NoModel
    /\ current_model # <<params>>
    /\ Len(data_buffer) = buffer_size

----------------------------------------------------------------------------
InSelfLoop == pc \in {"self_collect", "self_update", "self_check", "self_save",
                      "self_promote", "done"}

(* C11: inside the self-play loop check_freq is the fixed self-play        *)
(* interval and at most game_batch_num iterations are started; run()       *)
(* returns after exactly game_batch_num iterations; an iteration evaluates *)
(* exactly when its 1-based number is a multiple of the interval; the      *)
(* counter only moves by one, back to the head of the loop.                *)
C11_SelfPlayBudget ==
    /\ [](InSelfLoop => check_freq = self_check_freq /\ i <= game_batch_num)
    /\ [](pc = "done" => i = game_batch_num)
    /\ [](pc \in {"self_update", "self_check", "self_save", "self_promote"} =>
             i < game_batch_num)
    /\ [][Ran("self_check") =>
             (pc' = "self_save" <=> (i + 1) % self_check_freq = 0)]_vars
    /\ [][pc' = "self_save" => pc = "self_check"]_vars
    /\ [][i' # i => i' = i + 1 /\ pc' = "self_collect"]_vars
    /\ [][pc = "done" => pc' = "done"]_vars

(* run() has returned after the whole budget, the last iteration having    *)
(* evaluated.                                                              *)
C11_Witness ==
    /\ pc = "done"
    /\ i = game_batch_num
    /\ last_eval = game_batch_num
    /\ check_freq = self_check_freq

(* C12: in the coach phase, an evaluation that follows an earlier one      *)
(* comes exactly check_freq iterations after it, check_freq being the      *)
(* value the earlier evaluation left; in particular never sooner.          *)
C12_EvaluationGap ==
    [][(Ran("coach_check") /\ pc' = "coach_save" /\ last_eval > 0) =>
          (time + 1) - last_eval = check_freq]_vars

(* C13: in the self-play phase every evaluation is played over eval_games  *)
(* matches against the baseline opponent of the current strength           *)
(* pure_mcts_playout_num.                                                  *)
C13_BaselineOpponent ==
    pc \in {"self_save", "self_promote"} =>
        /\ Enemy = pure_mcts_playout_num
        /\ TallySum(win_cnt) = eval_games

(* C14: the step after the matches of an evaluation, in either phase,      *)
(* saves the parameters as the current checkpoint; the best checkpoint is  *)
(* written only by the promotion step that follows, with the parameters    *)
(* untouched since the current checkpoint was written, so a step that      *)
(* writes best leaves best equal to current.                               *)
C14_BestAfterCurrent ==
    /\ [][pc' \in {"coach_save", "self_save"} => pc \in {"coach_check", "self_check"}]_vars
    /\ [][(Ran("coach_save") \/ Ran("self_save")) =>
             /\ current_model' = <<params>>
             /\ pc' \in {"coach_promote", "self_promote"}
             /\ UNCHANGED <<params, best_model>>]_vars
    /\ [](pc \in {"coach_promote", "self_promote"} => current_model = <<params>>)
    /\ [][best_model' # best_model =>
             /\ pc \in {"coach_promote", "self_promote"}
             /\ best_model' = current_model
             /\ UNCHANGED <<params, current_model>>]_vars

(* Right after the first promotion of the coach phase, which saved         *)
(* parameters that had been trained.                                       *)
C14_Witness ==
    /\ pc = "coach_collect"
    /\ level = 0
    /\ least_lose < least_lose_init
    /\ last_eval = time
    /\ params > 0
    /\ best_model = <<params>>
    /\ current_model = best_model

(* C15: the branch of lines 171-188 taken after a coach-phase evaluation   *)
(* leaves check_freq unchanged on zero losses, adds check_step_small when  *)
(* the losses are below least_lose but not zero, adds check_step_big when  *)
(* they are not below least_lose; every other step of the coach phase      *)
(* leaves check_freq alone, so it never decreases.                         *)
C15_CheckFreqSteps ==
    /\ [][Ran("coach_promote") =>
             check_freq' = check_freq +
                 (IF win_cnt[2] >= least_lose THEN check_step_big
                  ELSE IF win_cnt[2] = 0 THEN 0 ELSE check_step_small)]_vars
    /\ [][pc # "coach_promote" => check_freq' = check_freq]_vars
    /\ [][check_freq' >= check_freq]_vars
    /\ [](check_freq >= check_freq_init)

(* One improving evaluation with losses, then one without improvement. *)
C15_Witness ==
    /\ pc = "coach_collect"
    /\ level = 0
    /\ least_lose < least_lose_init
    /\ check_freq = check_freq_init + check_step_small + check_step_big

(* C16, as stated: a call whose epoch loop was left by the break returns   *)
(* without an error and with a strictly lower multiplier.                  *)
C16_StoppedCallLowers ==
    [][(pc = "upd_adapt" /\ EarlyStop(kl)) =>
          /\ pc' = "upd_ret"
          /\ error' = error
          /\ RatLt(lr_multiplier', lr_multiplier)]_vars

(* C16, amended: a call whose epoch loop was left by the break returns     *)
(* without an error, to a caller that goes on to its next call; it leaves  *)
(* the multiplier divided by 1.5 when it was above 0.1 before the call,    *)
(* and unchanged when it was already at or below 0.1.                      *)
C16_StoppedCallLowersAboveFloor ==
    /\ [][(pc = "upd_adapt" /\ EarlyStop(kl)) =>
             /\ pc' = "upd_ret"
             /\ error' = error
             /\ IF RatLt(lr_floor, lr_multiplier)
                THEN /\ RatLt(lr_multiplier', lr_multiplier)
                     /\ lr_multiplier' = DivBy15(lr_multiplier)
                ELSE lr_multiplier' = lr_multiplier]_vars
    /\ [][pc = "upd_train" /\ EarlyStop(kl') => pc' = "upd_adapt"]_vars
    /\ [][pc = "upd_ret" => pc' = "upd_call"]_vars
    /\ [](error = "none")

(* The seventh call in a row that broke out of its loop at the first step: *)
(* six have lowered the multiplier below 0.1, this one left it there.      *)
C16_Witness ==
    /\ pc = "upd_ret"
    /\ EarlyStop(kl)
    /\ epoch = 1
    /\ params = 7
    /\ lr_multiplier = <<64, 729>>

(* C17: the level index only moves up by one, the k-th advancement         *)
(* installing a coach of the k-th configured strength (none is skipped),   *)
(* and clearing the last level ends the curriculum without an error.       *)
C17_LevelsInOrder ==
    /\ [][level' # level => level' = level + 1 /\ InRange(level) /\ Coach' = LevelAt(level)]_vars
    /\ [](error # "IndexError")
    /\ [](level <= Len(levels))

IsEvaluate == pc \in {"coach_check", "self_check"} /\ pc' \in {"coach_save", "self_save"}
IsUpdate == /\ pc \in {"coach_update", "self_update"}
            /\ pc' \in {"coach_check", "self_check"}
            /\ params' # params

(* C18: a call of policy_evaluate leaves the buffer, the multiplier,       *)
(* least_lose, best_win_ratio, check_freq and the parameters (and the      *)
(* rest of the curriculum state and the checkpoints) unchanged; a call of  *)
(* a collector changes the buffer and nothing of the training state        *)
(* beside it; a call of policy_update changes the multiplier and the       *)
(* parameters and leaves the buffer, the curriculum state and the          *)
(* checkpoints unchanged.                                                  *)
C18_Frames ==
    /\ [][IsEvaluate =>
             UNCHANGED <<data_buffer, lr_multiplier, least_lose, best_win_ratio,
                         check_freq, params, time, i, level, Coach,
                         pure_mcts_playout_num, current_model, best_model>>]_vars
    /\ [][IsPush =>
             UNCHANGED <<lr_multiplier, params, time, i, level, Coach, check_freq,
                         least_lose, best_win_ratio, pure_mcts_playout_num,
                         current_model, best_model, win_cnt, Enemy>>]_vars
    /\ [][IsUpdate =>
             UNCHANGED <<data_buffer, play_data, time, i, level, Coach, check_freq,
                         least_lose, best_win_ratio, pure_mcts_playout_num,
                         current_model, best_model, win_cnt, Enemy>>]_vars
    /\ [][data_buffer' # data_buffer => IsPush]_vars
    /\ [][lr_multiplier' # lr_multiplier \/ params' # params => IsUpdate]_vars

(* An evaluation has just been played, after calls of policy_update and    *)
(* with the buffer full.                                                   *)
C18_Witness ==
    /\ pc = "coach_save"
    /\ TallySum(win_cnt) = eval_games
    /\ params > 1
    /\ lr_multiplier # lr_init
    /\ Len(data_buffer) = buffer_size

(* C19: at the head of every coach-phase iteration least_lose is between   *)
(* 1 and its initial value; while the level stays the same it never grows, *)
(* and it drops exactly in the steps that rewrite ./best_policy.model.     *)
C19_LeastLose ==
    /\ [](pc = "coach_collect" => least_lose \in 1..least_lose_init)
    /\ [][level' = level => least_lose' <= least_lose]_vars
    /\ [][level' = level => (least_lose' < least_lose <=> best_model' # best_model)]_vars

(* After the first level was cleared and least_lose set back, an           *)
(* evaluation against the second coach improved on it.                     *)
C19_Witness ==
    /\ pc = "coach_collect"
    /\ level = 1
    /\ last_eval = time
    /\ least_lose < least_lose_init
    /\ least_lose > 0

RECURSIVE Pow(_, _)
Pow(b, n) == IF n = 0 THEN 1 ELSE b * Pow(b, n - 1)

(* 1.5^k as a fraction in lowest terms. *)
Pow15(k) == IF k >= 0 THEN <<Pow(3, k), Pow(2, k)>> ELSE <<Pow(2, -k), Pow(3, -k)>>

(* C20: the multiplier is always 1.5^k for an integer k between -6 and 6;  *)
(* within a call it is moved only by the adaptation that follows the epoch *)
(* loop, and then k moves by at most one, however many gradient steps the  *)
(* loop applied.                                                           *)
C20_PowerOfOneAndHalf ==
    /\ [](\E k \in -6..6 : lr_multiplier = Pow15(k))
    /\ [][\E k \in -6..6 :
             /\ lr_multiplier = Pow15(k)
             /\ lr_multiplier' \in {Pow15(k - 1), Pow15(k), Pow15(k + 1)}]_vars
    /\ [][pc # "upd_adapt" => lr_multiplier' = lr_multiplier]_vars
    /\ [][pc = "upd_adapt" => pc' = "upd_ret"]_vars
    /\ [][pc = "upd_ret" => pc' = "upd_call"]_vars

(* Six calls in a row ended below kl_targ / 2, the last after all epochs   *)
(* steps: the multiplier is 1.5^6.                                         *)
C20_Witness ==
    /\ pc = "upd_ret"
    /\ params = 6
    /\ epoch = epochs
    /\ lr_multiplier = Pow15(6)

====
